---- MODULE Spec2Model ----
(***************************************************************************)
(* A model of src/gen.py (LitRev): the Article and Project data model,     *)
(* their persistence, the article merge of ProjectController, the          *)
(* conclusion extraction and the document export.                          *)
(*                                                                         *)
(* Conventions.                                                            *)
(*  - A Python object is the record of its attributes; a Python dict is a  *)
(*    function from its keys.                                              *)
(*  - Text the code treats as opaque is a TLA+ string.  Text the code      *)
(*    inspects character by character (Article.full_text and .conclusion,  *)
(*    search query strings, exported content) is a sequence of             *)
(*    one-character strings.                                               *)
(*  - datetime.now().isoformat() is a natural number; the order of the     *)
(*    numbers is the order of the timestamps.                              *)
(***************************************************************************)
EXTENDS Integers, Sequences, FiniteSets, TLC

VARIABLES
    article,    \* the Article under test (Article specifications)
    data,       \* <<>> or <<d>>: the dict last returned by article.to_dict()
    restored,   \* <<>> or <<a>>: the Article last returned by Article.from_dict(data)
    before,     \* <<>> or <<a>>: the Article as it was before the last operation changed it
    aop,        \* the last Article operation
    project,    \* ProjectController.current_project
    disk,       \* the files: path -> <<>> (no such file) or <<document>>
    writable,   \* whether open(path, 'w') succeeds
    room,       \* whether the file system has room for the bytes written to an open file
    now,        \* the value the last datetime.now() returned
    op,         \* the last handler of ProjectController that ran
    saved,      \* how the Project.save() of that handler ended: "ok", "failed", "none"
    couldWrite, \* whether a file could be opened and written in full when that handler ran
    failures,   \* the number of Project.save() calls that raised so far
    incoming,   \* the results search_articles returned to that handler (<<>>: no search)
    content,    \* the review content handed to DocumentExporter
    outFile,    \* the file at the export path: <<>> (no such file) or <<what it holds>>
    xop,        \* the last export that ran
    xresult,    \* what that export returned
    xprior,     \* the file at the export path when that export was called
    xraised     \* whether that export let an exception reach its caller

artVars == <<article, data, restored, before, aop>>

ctlVars == <<project, disk, now, op, saved, couldWrite, failures, incoming>>

expVars == <<content, outFile, xop, xresult, xprior, xraised>>

vars == <<article, data, restored, before, aop,
          project, disk, writable, room, now, op, saved, couldWrite, failures,
          incoming,
          content, outFile, xop, xresult, xprior, xraised>>

(***************************************************************************)
(* Characters                                                              *)
(***************************************************************************)
UpperLetters == <<"A","B","C","D","E","F","G","H","I","J","K","L","M",
                  "N","O","P","Q","R","S","T","U","V","W","X","Y","Z">>

LowerLetters == <<"a","b","c","d","e","f","g","h","i","j","k","l","m",
                  "n","o","p","q","r","s","t","u","v","w","x","y","z">>

Range(s) == {s[i] : i \in DOMAIN s}

\* The characters of [A-Z] and of [a-z]
UpperSet == Range(UpperLetters)

LowerSet == Range(LowerLetters)

IsUpper(c) == c \in UpperSet

IsLower(c) == c \in LowerSet

IsLetter(c) == IsUpper(c) \/ IsLower(c)

\* str.isspace() / the regular-expression class \s, on the characters used here
IsSpace(c) == c \in {" ", "\n", "\t", "\r"}

IndexIn(s, c) == CHOOSE i \in DOMAIN s : s[i] = c

\* str.lower() on one character
LowerChar(c) == IF IsUpper(c) THEN LowerLetters[IndexIn(UpperLetters, c)] ELSE c

\* str.upper() on one character
UpperChar(c) == IF IsLower(c) THEN UpperLetters[IndexIn(LowerLetters, c)] ELSE c

\* str.lower()
Lower(s) == [i \in DOMAIN s |-> LowerChar(s[i])]

\* s[i:j] with 1-based i and exclusive 1-based j (Python s[i-1:j-1])
Slice(s, i, j) == IF j <= i THEN <<>> ELSE SubSeq(s, i, j - 1)

\* s.startswith(p)
StartsWith(s, p) == Len(s) >= Len(p) /\ SubSeq(s, 1, Len(p)) = p

\* str.strip()
RECURSIVE LStrip(_)
LStrip(s) == IF s # <<>> /\ IsSpace(Head(s)) THEN LStrip(Tail(s)) ELSE s

RECURSIVE RStrip(_)
RStrip(s) ==
    IF s # <<>> /\ IsSpace(s[Len(s)]) THEN RStrip(SubSeq(s, 1, Len(s) - 1)) ELSE s

Strip(s) == RStrip(LStrip(s))

(***************************************************************************)
(* Article                                                                 *)
(***************************************************************************)
ArticleFields ==
    {"title", "authors", "journal", "year", "doi", "abstract", "conclusion",
     "full_text", "url", "source_db", "selected", "notes", "local_file_path"}

\* Article.__init__; `authors or []` turns a falsy authors argument into []
Article(title, authors, journal, year, doi, abstract, conclusion, full_text, url, source_db) ==
    [title |-> title, authors |-> authors, journal |-> journal, year |-> year,
     doi |-> doi, abstract |-> abstract, conclusion |-> conclusion,
     full_text |-> full_text, url |-> url, source_db |-> source_db,
     selected |-> FALSE, notes |-> "", local_file_path |-> ""]

\* Article() with every argument defaulted
ArticleDefault == Article("", <<>>, "", "", "", "", <<>>, <<>>, "", <<>>)

\* A to_dict that forgets the review annotations
to_dict_drops_annotations(a) ==
    [k \in ArticleFields \ {"selected", "notes", "local_file_path"} |-> a[k]]

\* Article.to_dict
to_dict(a) ==
    [title |-> a.title, authors |-> a.authors, journal |-> a.journal,
     year |-> a.year, doi |-> a.doi, abstract |-> a.abstract,
     conclusion |-> a.conclusion, full_text |-> a.full_text, url |-> a.url,
     source_db |-> a.source_db, selected |-> a.selected, notes |-> a.notes,
     local_file_path |-> a.local_file_path]

\* Article.from_dict: cls(), then setattr(article, key, value) for every item.
\* Keys are unique, so the result does not depend on the order of the items.
from_dict(d) ==
    [k \in (DOMAIN ArticleDefault) \cup (DOMAIN d) |->
        IF k \in DOMAIN d THEN d[k] ELSE ArticleDefault[k]]

(***************************************************************************)
(* Article.extract_conclusion                                              *)
(***************************************************************************)
\* The inline flag (?i) at the head of each pattern: re.IGNORECASE for the
\* whole pattern, the literal header and the character classes alike.
IgnoreCase == TRUE

\* One character against the class [A-Z]
MatchAZ(c, ic) == IsUpper(c) \/ (ic /\ IsUpper(UpperChar(c)))

\* One character against the class [a-z]
Matchaz(c, ic) == IsLower(c) \/ (ic /\ IsLower(LowerChar(c)))

\* One character against a literal character of the pattern
MatchChar(c, p, ic) == c = p \/ (ic /\ LowerChar(c) = LowerChar(p))

\* The literal lit matches text at position i
MatchLiteralAt(text, i, lit, ic) ==
    /\ i + Len(lit) - 1 <= Len(text)
    /\ \A k \in 1..Len(lit) : MatchChar(text[i + k - 1], lit[k], ic)

\* \s* (greedy) from position i: the first position at or after i that holds
\* no whitespace
SkipSpaces(text, i) ==
    IF \E j \in i..Len(text) : ~IsSpace(text[j])
    THEN CHOOSE j \in i..Len(text) :
            /\ ~IsSpace(text[j])
            /\ \A k \in i..(j - 1) : IsSpace(text[k])
    ELSE Len(text) + 1

\* The alternative \n\s*[A-Z][a-z]+ matches text at position e
TerminatorAt(text, e, ic) ==
    /\ e <= Len(text)
    /\ text[e] = "\n"
    /\ LET j == SkipSpaces(text, e + 1)
       IN  /\ j + 1 <= Len(text)
           /\ MatchAZ(text[j], ic)
           /\ Matchaz(text[j + 1], ic)

\* The three patterns of extract_conclusion, in order: the header literal and
\* whether [s]? follows it
ConclusionPatterns ==
    << [lit |-> <<"c","o","n","c","l","u","s","i","o","n">>, optS |-> TRUE],
       [lit |-> <<"d","i","s","c","u","s","s","i","o","n"," ","a","n","d"," ",
                  "c","o","n","c","l","u","s","i","o","n">>, optS |-> TRUE],
       [lit |-> <<"s","u","m","m","a","r","y">>, optS |-> FALSE] >>

\* re.search(pattern, text, re.DOTALL) for header\s*(.*?)(?:\n\s*[A-Z][a-z]+|\Z):
\* <<>> when there is no match, else <<group(1)>>.  The search takes the
\* leftmost header; from there [s]? and \s* are greedy, and the lazy group ends
\* at the first position where the terminator or the end of text matches (with
\* DOTALL the end of text is always reached, so the greedy parts never give back).
RegexSearch(pat, text, ic) ==
    LET starts == {i \in 1..Len(text) : MatchLiteralAt(text, i, pat.lit, ic)}
    IN  IF starts = {} THEN <<>>
        ELSE LET s  == CHOOSE i \in starts : \A k \in starts : i <= k
                 p1 == s + Len(pat.lit)
                 p2 == IF pat.optS /\ p1 <= Len(text) /\ MatchChar(text[p1], "s", ic)
                       THEN p1 + 1 ELSE p1
                 b  == SkipSpaces(text, p2)
                 ends == {e \in b..(Len(text) + 1) :
                             e = Len(text) + 1 \/ TerminatorAt(text, e, ic)}
                 e  == CHOOSE x \in ends : \A y \in ends : x <= y
             IN  << Slice(text, b, e) >>

\* The indices of the patterns that match text
MatchingPatterns(text) ==
    {n \in DOMAIN ConclusionPatterns :
        RegexSearch(ConclusionPatterns[n], text, IgnoreCase) # <<>>}

\* Article.extract_conclusion
extract_conclusion(a) ==
    IF a.full_text = <<>> THEN a
    ELSE LET hits == MatchingPatterns(a.full_text)
         IN  IF hits = {} THEN a
             ELSE LET n == CHOOSE i \in hits : \A k \in hits : i <= k
                      m == RegexSearch(ConclusionPatterns[n], a.full_text, IgnoreCase)
                  IN  [a EXCEPT !.conclusion = Strip(m[1])]

(***************************************************************************)
(* Lines and strings                                                       *)
(***************************************************************************)
\* The concatenation of the one-character strings of s: the text as one string
RECURSIVE Str(_)
Str(s) == IF s = <<>> THEN "" ELSE Head(s) \o Str(Tail(s))

\* "\n".join(lines)
RECURSIVE JoinLines(_)
JoinLines(ls) ==
    IF ls = <<>> THEN <<>>
    ELSE IF Len(ls) = 1 THEN ls[1]
    ELSE ls[1] \o <<"\n">> \o JoinLines(Tail(ls))

\* s.split('\n'): always at least one element, the last one the text after
\* the last newline (empty when s ends with a newline)
RECURSIVE SplitLines(_)
SplitLines(s) ==
    IF \E i \in DOMAIN s : s[i] = "\n"
    THEN LET i == CHOOSE k \in DOMAIN s :
                     s[k] = "\n" /\ \A m \in 1..(k - 1) : s[m] # "\n"
         IN  << Slice(s, 1, i) >> \o SplitLines(Slice(s, i + 1, Len(s) + 1))
    ELSE << s >>

\* The sequences over S of length at most n
SeqUpTo(S, n) == UNION {[1..k -> S] : k \in 0..n}

\* list.remove / del list[i]
RemoveAt(s, i) == SubSeq(s, 1, i - 1) \o SubSeq(s, i + 1, Len(s))

(***************************************************************************)
(* Bounds                                                                  *)
(***************************************************************************)
\* The clock reads are 0..MaxClock
MaxClock == 1

\* Questions and queries are added while fewer than MaxLen are held
MaxLen == 1

\* A session sees at most MaxFailedSaves calls of Project.save() raise
MaxFailedSaves == 1

(***************************************************************************)
(* Time                                                                    *)
(***************************************************************************)
\* The values one call of datetime.now().isoformat() can return when the last
\* call returned t.  datetime.now() reads the local wall clock without a zone:
\* the value can be later than t, equal to it, or earlier (the end of
\* daylight saving time, a clock that is set back).
NowCall(t) == 0..MaxClock

(***************************************************************************)
(* JSON: json.dump / json.load                                             *)
(***************************************************************************)
\* A JSON document is a tagged tree: a string, true, false, an array or an
\* object.
JStr(s) == [t |-> "string", v |-> s]

JBool(b) == [t |-> IF b THEN "true" ELSE "false"]

JArr(xs) == [t |-> "array", v |-> xs]

JObj(f) == [t |-> "object", v |-> f]

\* What a file holds when it is no JSON document
NotJson == [t |-> "invalid"]

\* json.dumps of a list of str
DumpStrList(xs) == JArr([i \in DOMAIN xs |-> JStr(xs[i])])

\* json.dumps of a dict whose values are str
DumpStrDict(d) == JObj([k \in DOMAIN d |-> JStr(d[k])])

\* json.dumps of the dict Article.to_dict returns
DumpArticleDict(d) ==
    JObj([k \in DOMAIN d |->
            CASE k = "authors"  -> DumpStrList(d[k])
              [] k = "selected" -> JBool(d[k])
              [] OTHER          -> JStr(d[k])])

\* json.dumps of the dict Project.to_dict returns
DumpProjectDict(d) ==
    JObj([k \in DOMAIN d |->
            CASE k \in {"research_questions", "selected_databases"} ->
                    DumpStrList(d[k])
              [] k = "search_queries" ->
                    JArr([i \in DOMAIN d[k] |-> DumpStrDict(d[k][i])])
              [] k \in {"articles", "selected_articles"} ->
                    JArr([i \in DOMAIN d[k] |-> DumpArticleDict(d[k][i])])
              [] OTHER -> JStr(d[k])])

\* json.loads of a JSON document
RECURSIVE JsonLoads(_)
JsonLoads(j) ==
    CASE j.t = "string" -> j.v
      [] j.t = "true"   -> TRUE
      [] j.t = "false"  -> FALSE
      [] j.t = "array"  -> [i \in DOMAIN j.v |-> JsonLoads(j.v[i])]
      [] j.t = "object" -> [k \in DOMAIN j.v |-> JsonLoads(j.v[k])]

(***************************************************************************)
(* Project                                                                 *)
(***************************************************************************)
\* Project.__init__, datetime.now() returning t
Project(name, path, t) ==
    [name |-> name, path |-> path, research_questions |-> <<>>,
     search_queries |-> <<>>, selected_databases |-> <<>>, articles |-> <<>>,
     selected_articles |-> <<>>, review_methodology |-> "",
     review_content |-> "", date_created |-> t, date_modified |-> t]

\* Project.to_dict, datetime.now() returning t
ProjectToDict(p, t) ==
    [name |-> p.name, path |-> p.path,
     research_questions |-> p.research_questions,
     search_queries |-> p.search_queries,
     selected_databases |-> p.selected_databases,
     articles |-> [i \in DOMAIN p.articles |-> to_dict(p.articles[i])],
     selected_articles |->
        [i \in DOMAIN p.selected_articles |-> to_dict(p.selected_articles[i])],
     review_methodology |-> p.review_methodology,
     review_content |-> p.review_content,
     date_created |-> p.date_created,
     date_modified |-> t]

\* dict.get(key, default)
Get(d, key, default) == IF key \in DOMAIN d THEN d[key] ELSE default

\* Project.from_dict.  __init__ sets both dates from its own datetime.now();
\* both are then overwritten by data.get(key, datetime.now().isoformat()), whose
\* defaults return tc and then tm.
ProjectFromDict(d, tc, tm) ==
    [name |-> Get(d, "name", ""), path |-> Get(d, "path", ""),
     research_questions |-> Get(d, "research_questions", <<>>),
     search_queries |-> Get(d, "search_queries", <<>>),
     selected_databases |-> Get(d, "selected_databases", <<>>),
     articles |->
        LET as == Get(d, "articles", <<>>)
        IN  [i \in DOMAIN as |-> from_dict(as[i])],
     selected_articles |->
        LET as == Get(d, "selected_articles", <<>>)
        IN  [i \in DOMAIN as |-> from_dict(as[i])],
     review_methodology |-> Get(d, "review_methodology", ""),
     review_content |-> Get(d, "review_content", ""),
     date_created |-> Get(d, "date_created", tc),
     date_modified |-> Get(d, "date_modified", tm)]

\* The outcomes of Project.save() on project p with the files dk, the file
\* system letting the file be opened for writing or not (w) and
\* having room for the document or not (r), the clock at clock: the project,
\* the files and the clock afterwards, and whether save returned (ok) or
\* raised.  An empty path raises before anything is assigned; a failing open()
\* raises after date_modified was assigned and leaves the file as it was; a
\* write that fails after open(path, 'w') truncated the file raises after
\* to_dict() read the clock and leaves a file that holds no JSON document.
ProjectSave(p, dk, w, r, clock) ==
    IF p.path = ""
    THEN {[project |-> p, disk |-> dk, now |-> clock, ok |-> FALSE]}
    ELSE UNION {
           LET p1 == [p EXCEPT !.date_modified = t1]
           IN  IF ~w \/ p.path \notin DOMAIN dk
               THEN {[project |-> p1, disk |-> dk, now |-> t1, ok |-> FALSE]}
               ELSE {[project |-> p1,
                      disk |-> [dk EXCEPT ![p.path] =
                                  IF r THEN << DumpProjectDict(ProjectToDict(p1, t2)) >>
                                  ELSE << NotJson >>],
                      now |-> t2, ok |-> r] : t2 \in NowCall(t1)}
           : t1 \in NowCall(clock)}

\* The outcomes of Project.load(path): the project read (<<>> when load
\* raised: no such file, or no JSON document in it) and the clock afterwards
ProjectLoad(path, dk, clock) ==
    IF path \notin DOMAIN dk \/ dk[path] = <<>> \/ dk[path] = << NotJson >>
    THEN {[project |-> <<>>, now |-> clock]}
    ELSE LET d == JsonLoads(dk[path][1])
         IN  UNION { UNION {
               {[project |-> << ProjectFromDict(d, tc, tm) >>,
                 now |-> tm] : tm \in NowCall(tc)}
               : tc \in NowCall(t0)} : t0 \in NowCall(clock)}

(***************************************************************************)
(* ArticleRetriever                                                        *)
(***************************************************************************)
Digits == <<"0","1","2","3","4","5","6","7","8","9">>

IsDigit(c) == c \in Range(Digits)

\* One character against the class \w
IsWordChar(c) == IsLetter(c) \/ IsDigit(c) \/ c = "_"

\* re.findall(r'\b\w+\b', query): the maximal runs of word characters, in order
RECURSIVE FindWords(_)
FindWords(q) ==
    IF q = <<>> THEN <<>>
    ELSE IF ~IsWordChar(Head(q)) THEN FindWords(Tail(q))
    ELSE LET n == CHOOSE k \in 1..Len(q) :
                     /\ \A m \in 1..k : IsWordChar(q[m])
                     /\ k = Len(q) \/ ~IsWordChar(q[k + 1])
         IN  << SubSeq(q, 1, n) >> \o FindWords(Slice(q, n + 1, Len(q) + 1))

\* The words the query language reserves
BooleanOperators == { <<"a","n","d">>, <<"o","r">>, <<"n","o","t">> }

\* [k for k in keywords if k.lower() not in ('and', 'or', 'not')]
Keywords(q) == SelectSeq(FindWords(q), LAMBDA k : Lower(k) \notin BooleanOperators)

\* str.title(): a letter is upper case after a non-letter and at the start,
\* lower case after a letter
TitleCase(w) ==
    [i \in DOMAIN w |->
        IF ~IsLetter(w[i]) THEN w[i]
        ELSE IF i = 1 \/ ~IsLetter(w[i - 1]) THEN UpperChar(w[i])
        ELSE LowerChar(w[i])]

\* format(i, "04d")
Pad4(i) ==
    LET s == ToString(i)
    IN  CASE Len(s) >= 4 -> s
          [] Len(s) = 3  -> "0" \o s
          [] Len(s) = 2  -> "00" \o s
          [] OTHER       -> "000" \o s

\* The number of results _generate_dummy_results is asked for
DummyCount == 5

\* The i-th article of _generate_dummy_results(database, query, count)
DummyArticle(database, query, i) ==
    LET keywords == Keywords(query)
        keyword  == IF keywords # <<>>
                    THEN Str(keywords[(i % Len(keywords)) + 1])
                    ELSE "research"
        titled   == IF keywords # <<>>
                    THEN Str(TitleCase(keywords[(i % Len(keywords)) + 1]))
                    ELSE "Research"
        year     == 2020 + (i % 5)
    IN  Article("Research on " \o titled \o " in Modern Context ("
                    \o ToString(i) \o ")",
                << "Author " \o ToString(i) \o "A", "Author " \o ToString(i) \o "B" >>,
                "Journal of " \o Str(database) \o " Research",
                ToString(year),
                "10.1234/jxyz." \o ToString(year) \o "." \o Pad4(i),
                "This study examines " \o keyword \o " in various contexts. "
                    \o "We explored how " \o keyword \o " affects outcomes and presents "
                    \o "a new framework for understanding its implications.",
                <<>>, <<>>,
                "https://example.org/" \o Str(Lower(database)) \o "/"
                    \o ToString(year) \o "/" \o Pad4(i),
                database)

\* ArticleRetriever._generate_dummy_results
generate_dummy_results(database, query, count) ==
    [i \in 1..count |-> DummyArticle(database, query, i)]

\* ArticleRetriever.search_articles: the results of every database, in the
\* order of the databases
RECURSIVE search_articles(_, _)
search_articles(query, databases) ==
    IF databases = <<>> THEN <<>>
    ELSE generate_dummy_results(Head(databases), query, DummyCount)
            \o search_articles(query, Tail(databases))

(***************************************************************************)
(* ProjectController: the inputs of the handlers                           *)
(***************************************************************************)
ProjectFile == "review.json"

QuestionPool == {"q1"}

ArXiv == <<"a","r","X","i","v">>

PubMed == <<"P","u","b","M","e","d">>

Scopus == <<"S","c","o","p","u","s">>

\* The names of DEFAULT_CONFIG["publication_databases"] the model uses
ConfiguredDatabases == {ArXiv, PubMed}

QueryA == [query |-> <<"m","l"," ","A","N","D"," ","a","i">>, explanation |-> "e1"]

QueryB == [query |-> <<"n","o","t"," ","O","R">>, explanation |-> "e2"]

QueryPool == {QueryA, QueryB}

\* Articles of a project file written by an earlier session
OldNoDoi ==
    [Article("A survey", <<"Z">>, "J", "2019", "", "abs", <<>>, <<>>, "u", ArXiv)
        EXCEPT !.selected = TRUE, !.notes = "keep", !.local_file_path = "s.pdf"]

OldSameTitle ==
    Article("Research on Ai in Modern Context (1)", <<"Y">>, "J", "2018",
            "10.9/other", "abs", <<"o","k">>, <<"t","x","t">>, "u", PubMed)

OldSameDoi ==
    Article("Another title", <<>>, "J", "2022", "10.1234/jxyz.2022.0002", "abs",
            <<>>, <<>>, "u", PubMed)

OldProject ==
    [Project("Old review", ProjectFile, 0) EXCEPT
        !.research_questions = <<"q1">>,
        !.search_queries = <<QueryA>>,
        !.selected_databases = <<PubMed>>,
        !.articles = <<OldNoDoi, OldSameTitle, OldSameDoi>>,
        !.selected_articles = <<OldNoDoi>>,
        !.review_methodology = "Scoping Review",
        !.review_content = "# Review"]

SmallProject ==
    [Project("Small review", ProjectFile, 0) EXCEPT
        !.search_queries = <<QueryB>>,
        !.selected_databases = <<ArXiv>>,
        !.articles = <<OldNoDoi>>]

\* A project that createNewProject saved and nothing was added to
NewProject == Project("New review", ProjectFile, 0)

\* A project file written by this program for project p
FileOf(p) == << DumpProjectDict(ProjectToDict(p, p.date_modified)) >>

\* A project file with a single key
BareFile == << JObj([name |-> JStr("Bare")]) >>

(***************************************************************************)
(* ProjectController.searchArticles: the merge                             *)
(***************************************************************************)
\* A doi test that never finds a match
DoiMatchNever(a, existing) == FALSE

\* A doi test that forgets the comparison: `if article.doi`
DoiMatchAnyDoi(a, existing) == a.doi # ""

\* `if article.doi and article.doi == existing.doi`
DoiMatch(a, existing) == a.doi # "" /\ a.doi = existing.doi

\* `elif article.title ...`: the source ends inside this condition; it is
\* taken to compare the titles for exact equality, as the design text says.
\* No article of this model has an empty title, so a condition that also
\* asks for a non-empty title gives the same results.
TitleMatch(a, existing) == a.title = existing.title

\* The inner loop: exists is set by the first held article that matches
Exists(a, held) ==
    \E i \in DOMAIN held : DoiMatch(a, held[i]) \/ TitleMatch(a, held[i])

\* The outer loop: each result that matches no held article is appended to
\* the held ones before the next result is looked at
RECURSIVE MergeArticles(_, _)
MergeArticles(held, results) ==
    IF results = <<>> THEN held
    ELSE MergeArticles(IF Exists(Head(results), held) THEN held
                       ELSE Append(held, Head(results)),
                       Tail(results))

\* int(query_index) for an optional minus sign and decimal digits: <<>> when
\* it raises ValueError, else <<n>>
ParseInt(s) ==
    LET RECURSIVE Value(_)
        Value(t) == IF t = <<>> THEN 0
                    ELSE 10 * Value(SubSeq(t, 1, Len(t) - 1))
                            + (IndexIn(Digits, t[Len(t)]) - 1)
        AllDigits(t) == t # <<>> /\ \A i \in DOMAIN t : IsDigit(t[i])
    IN  IF AllDigits(s) THEN << Value(s) >>
        ELSE IF s # <<>> /\ s[1] = "-" /\ AllDigits(Tail(s)) THEN << 0 - Value(Tail(s)) >>
        ELSE <<>>

(***************************************************************************)
(* ProjectController: the handlers                                         *)
(***************************************************************************)
\* ProjectController.saveProject() called by the handler `name` with the
\* project p (the handler's assignments made) and the clock at clock:
\* Project.save(), whose exception is caught, logged and signalled
SaveProjectAs(name, p, clock) ==
    \E o \in ProjectSave(p, disk, writable, room, clock) :
        /\ o.ok \/ failures < MaxFailedSaves
        /\ failures' = IF o.ok THEN failures ELSE failures + 1
        /\ project' = o.project
        /\ disk' = o.disk
        /\ now' = o.now
        /\ saved' = IF o.ok THEN "ok" ELSE "failed"
        /\ couldWrite' = (writable /\ room)
        /\ op' = name
        /\ UNCHANGED <<writable, room, artVars, expVars>>

\* ProjectController.createNewProject: current_project is replaced before
\* save() is tried
createNewProject(name, path) ==
    \E t \in NowCall(now) :
        /\ SaveProjectAs("createNewProject", Project(name, path, t), t)
        /\ incoming' = <<>>

\* ProjectController.loadProject: current_project is replaced when load returns
loadProject(path) ==
    \E o \in ProjectLoad(path, disk, now) :
        /\ o.project # <<>>
        /\ project' = o.project[1]
        /\ now' = o.now
        /\ op' = "loadProject"
        /\ saved' = "none"
        /\ couldWrite' = (writable /\ room)
        /\ incoming' = <<>>
        /\ UNCHANGED <<disk, writable, room, failures, artVars, expVars>>

\* ProjectController.loadProject when Project.load raises: nothing changes
loadProjectFails(path) ==
    /\ \E o \in ProjectLoad(path, disk, now) : o.project = <<>>
    /\ UNCHANGED vars

\* ProjectController.saveProject, called from the user interface
saveProject ==
    /\ SaveProjectAs("saveProject", project, now)
    /\ incoming' = <<>>

\* ProjectController.addResearchQuestion
addResearchQuestion(question) ==
    /\ SaveProjectAs("addResearchQuestion",
                     [project EXCEPT !.research_questions = Append(@, question)], now)
    /\ incoming' = <<>>

\* ProjectController.removeResearchQuestion: nothing happens for an index
\* out of range
removeResearchQuestion(index) ==
    IF 0 <= index /\ index < Len(project.research_questions)
    THEN /\ SaveProjectAs("removeResearchQuestion",
                          [project EXCEPT !.research_questions = RemoveAt(@, index + 1)],
                          now)
         /\ incoming' = <<>>
    ELSE UNCHANGED vars

\* ProjectController.generateSearchQueries: answer is <<>> when
\* ChatGPTService.generate_search_queries raises (no API key, no network),
\* else <<queries>>
generateSearchQueries(answer) ==
    IF answer = <<>>
    THEN UNCHANGED vars
    ELSE /\ SaveProjectAs("generateSearchQueries",
                          [project EXCEPT !.search_queries = answer[1]], now)
         /\ incoming' = <<>>

\* ProjectController.addSearchQuery: json.loads raises, or the query is appended
addSearchQuery(query_json) ==
    IF query_json = NotJson
    THEN UNCHANGED vars
    ELSE /\ SaveProjectAs("addSearchQuery",
                          [project EXCEPT !.search_queries =
                                            Append(@, JsonLoads(query_json))],
                          now)
         /\ incoming' = <<>>

\* ProjectController.removeSearchQuery
removeSearchQuery(index) ==
    IF 0 <= index /\ index < Len(project.search_queries)
    THEN /\ SaveProjectAs("removeSearchQuery",
                          [project EXCEPT !.search_queries = RemoveAt(@, index + 1)],
                          now)
         /\ incoming' = <<>>
    ELSE UNCHANGED vars

\* ChatGPTService.suggest_publication_databases: the filter on the answer
FilterSuggestions(results) ==
    SelectSeq(results, LAMBDA item : item.database \in ConfiguredDatabases)

\* ProjectController.suggestDatabases: answer is <<>> when the service raises,
\* else <<the JSON list the language model returned>>
suggestDatabases(answer) ==
    IF answer = <<>>
    THEN UNCHANGED vars
    ELSE LET suggested_dbs == FilterSuggestions(answer[1])
         IN  /\ SaveProjectAs("suggestDatabases",
                              [project EXCEPT !.selected_databases =
                                 [i \in DOMAIN suggested_dbs |-> suggested_dbs[i].database]],
                              now)
             /\ incoming' = <<>>

\* list.remove(x): the first occurrence of x goes
RemoveFirst(xs, x) ==
    RemoveAt(xs, CHOOSE i \in DOMAIN xs : xs[i] = x /\ \A k \in 1..(i - 1) : xs[k] # x)

\* ProjectController.setDatabaseSelected
setDatabaseSelected(database, selected) ==
    LET dbs == project.selected_databases
        new == IF selected /\ database \notin Range(dbs)
               THEN Append(dbs, database)
               ELSE IF ~selected /\ database \in Range(dbs)
               THEN RemoveFirst(dbs, database)
               ELSE dbs
    IN  /\ SaveProjectAs("setDatabaseSelected",
                         [project EXCEPT !.selected_databases = new], now)
        /\ incoming' = <<>>

\* The part of searchArticles that adds the new articles to the project.
\* The source ends inside its inner loop; the append of a result that
\* matched nothing and the saveProject that follows are taken from the
\* design text.
AddNewArticles(results) ==
    SaveProjectAs("searchArticles",
                  [project EXCEPT !.articles = MergeArticles(@, results)],
                  now)

\* ProjectController.searchArticles, up to the loop over the results
searchArticles(query_index) ==
    LET index == ParseInt(query_index)
    IN  IF index # <<>> /\ 0 <= index[1] /\ index[1] < Len(project.search_queries)
        THEN LET query   == project.search_queries[index[1] + 1].query
                 results == search_articles(query, project.selected_databases)
             IN  /\ incoming' = results
                 /\ AddNewArticles(results)
        ELSE UNCHANGED vars

\* The file system starts or stops letting files be opened for writing
\* (permissions)
SetWritable ==
    /\ writable' = ~writable
    /\ UNCHANGED <<room, ctlVars, artVars, expVars>>

\* The file system runs out of room, or gets room again (free space)
SetRoom ==
    /\ room' = ~room
    /\ UNCHANGED <<writable, ctlVars, artVars, expVars>>

\* The export variables while nothing is exported
ExportIdle ==
    /\ content = <<>>
    /\ outFile = <<>>
    /\ xop = "none"
    /\ xresult = FALSE
    /\ xprior = <<>>
    /\ xraised = FALSE

\* The Article variables while no Article is under test
ArticleIdle ==
    /\ article = ArticleDefault
    /\ data = <<>>
    /\ restored = <<>>
    /\ before = <<>>
    /\ aop = "none"

\* ProjectController.__init__ at time t, with the project file an earlier
\* session left
ControllerInit(files, t) ==
    /\ project = Project("", "", t)
    /\ disk \in [{ProjectFile} -> files]
    /\ now = t
    /\ op = "init"
    /\ saved = "none"
    /\ couldWrite = TRUE
    /\ failures = 0
    /\ incoming = <<>>
    /\ ArticleIdle
    /\ ExportIdle

(***************************************************************************)
(* The controller editing questions, queries and databases                 *)
(***************************************************************************)
EditInit ==
    /\ ControllerInit({ <<>>, FileOf(OldProject), BareFile, << NotJson >> }, 0)
    /\ writable \in BOOLEAN
    /\ room = TRUE

EditNext ==
    \/ \E path \in {"", ProjectFile} : createNewProject("New review", path)
    \/ \E path \in {ProjectFile, "missing.json"} : loadProject(path)
    \/ \E path \in {ProjectFile, "missing.json"} : loadProjectFails(path)
    \/ saveProject
    \/ \E question \in QuestionPool :
          Len(project.research_questions) < MaxLen /\ addResearchQuestion(question)
    \/ \E index \in -1..MaxLen : removeResearchQuestion(index)
    \/ \E answer \in { <<>>, << <<QueryB>> >> } : generateSearchQueries(answer)
    \/ \E query_json \in {DumpStrDict(QueryA), NotJson} :
          Len(project.search_queries) < MaxLen /\ addSearchQuery(query_json)
    \/ \E index \in -1..MaxLen : removeSearchQuery(index)
    \/ \E selected \in BOOLEAN : setDatabaseSelected(ArXiv, selected)
    \/ SetWritable
    \/ SetRoom

SpecController == EditInit /\ [][EditNext]_vars

\* The fields Project.load must give back as Project.save found them
StableProjectFields ==
    {"name", "path", "research_questions", "search_queries", "selected_databases",
     "articles", "selected_articles", "review_methodology", "review_content",
     "date_created"}

\* C2: after p.save() returned, every Project.load(p.path) returns a project
\* whose name, path, research_questions, search_queries, selected_databases,
\* articles, selected_articles, review_methodology, review_content and
\* date_created are those of p, and whose date_modified is not earlier than
\* the one p held before the save (for the project createNewProject makes,
\* the date_created that __init__ also gave to date_modified).
C2_SaveThenLoadRestoresProject ==
    [][(saved' = "ok" /\ writable' = writable /\ room' = room) =>
          LET held == IF op' = "createNewProject" THEN project'.date_created
                      ELSE project.date_modified
          IN  \A o \in ProjectLoad(project'.path, disk', now') :
                  /\ o.project # <<>>
                  /\ \A f \in StableProjectFields : o.project[1][f] = project'[f]
                  /\ o.project[1].date_modified >= held
      ]_vars

\* C2 without the order of the dates: after p.save() returned, every
\* Project.load(p.path) returns a project with the ten fields of p
C2_SaveThenLoadRestoresFields ==
    saved = "ok" =>
        \A o \in ProjectLoad(project.path, disk, now) :
            /\ o.project # <<>>
            /\ \A f \in StableProjectFields : o.project[1][f] = project[f]

\* The handlers that change questions, queries or databases and then call
\* saveProject
EditingHandlers ==
    {"addResearchQuestion", "removeResearchQuestion", "addSearchQuery",
     "removeSearchQuery", "generateSearchQueries", "setDatabaseSelected"}

\* C5: when the save of an editing handler fails, the project in memory is
\* the one the handler found.
C5_FailedSaveLeavesProjectUntouched ==
    [][(op' \in EditingHandlers /\ saved' = "failed"
            /\ <<op, saved, failures>>' # <<op, saved, failures>>)
        => project' = project]_vars

\* The project file, read back with json.load
Persisted == JsonLoads(disk[project.path][1])

\* C6: an editing handler that ran on a project with a path while the file
\* could be opened and written in full ended with the file rewritten: the
\* questions, queries and databases in the file are those in memory, and
\* neither the date_modified in memory nor the one in the file is earlier
\* than the date_modified before the handler.
C6_EditIsPersisted ==
    [][(op' \in EditingHandlers /\ writable /\ room /\ project'.path # ""
            /\ writable' = writable /\ room' = room) =>
          /\ saved' = "ok"
          /\ project'.date_modified >= project.date_modified
          /\ LET file == Persisted'
             IN  /\ file.research_questions = project'.research_questions
                 /\ file.search_queries = project'.search_queries
                 /\ file.selected_databases = project'.selected_databases
                 /\ file.date_modified >= project.date_modified
      ]_vars

\* C6 without the order of the dates: the handler ended with a save that
\* returned and the file holds the questions, queries and databases in memory
C6_EditIsInFile ==
    (op \in EditingHandlers /\ couldWrite /\ project.path # "") =>
        /\ saved = "ok"
        /\ LET file == Persisted
           IN  /\ file.research_questions = project.research_questions
               /\ file.search_queries = project.search_queries
               /\ file.selected_databases = project.selected_databases

(***************************************************************************)
(* The controller searching for articles                                   *)
(***************************************************************************)
\* The arguments searchArticles is called with
QueryIndexPool == { <<"0">>, <<"1">>, <<"7">>, <<"-","1">>, <<"x">> }

\* The file system accepts writes throughout: it plays no part in the merge.
\* The session starts with no project file or with the one an earlier
\* session left.
SearchInit ==
    /\ ControllerInit({ <<>>, FileOf(NewProject), FileOf(OldProject),
                        FileOf(SmallProject) }, MaxClock)
    /\ writable = TRUE
    /\ room = TRUE

SearchNext ==
    \/ loadProject(ProjectFile)
    \/ loadProjectFails(ProjectFile)
    \/ \E answer \in { <<>>, << <<QueryB, QueryA>> >> } : generateSearchQueries(answer)
    \/ \E database \in ConfiguredDatabases, selected \in BOOLEAN :
          setDatabaseSelected(database, selected)
    \/ \E query_index \in QueryIndexPool : searchArticles(query_index)

SpecSearch == SearchInit /\ [][SearchNext]_vars

\* No two of the articles have the same non-empty doi
NoDuplicateDoi(as) ==
    \A i, j \in DOMAIN as : (i < j /\ as[i].doi # "") => as[i].doi # as[j].doi

\* C3: the articles of the project never hold two records with the same
\* non-empty doi, whatever searches were merged into them, batches that
\* repeat a doi included.
C3_NoDuplicateDoiAfterMerges == NoDuplicateDoi(project.articles)

\* A search over two databases returned every doi twice and the merge added
\* articles to the ones the project held
C3_Witness ==
    /\ op = "searchArticles"
    /\ ~NoDuplicateDoi(incoming)
    /\ \E i \in DOMAIN project.articles : project.articles[i] = incoming[1]
    /\ \E i \in DOMAIN project.articles : project.articles[i] = OldNoDoi

\* Two records match by doi or by title
SameArticle(a, b) == (a.doi # "" /\ a.doi = b.doi) \/ a.title = b.title

\* No incoming record matches a held record or another incoming record
NoOverlap(held, results) ==
    /\ \A i \in DOMAIN results : \A j \in DOMAIN held :
          ~SameArticle(results[i], held[j])
    /\ \A i, j \in DOMAIN results : i # j => ~SameArticle(results[i], results[j])

\* C4: a search whose results match neither a held article nor one another
\* leaves the held articles, unchanged and in their order, followed by all
\* results in their order.
C4_DisjointMergeAppendsAll ==
    [][(op' = "searchArticles" /\ NoOverlap(project.articles, incoming'))
        => /\ project'.articles = project.articles \o incoming'
           /\ Len(project'.articles) = Len(project.articles) + Len(incoming')]_vars

\* The five results of one database were appended to the one article held
C4_Witness ==
    /\ op = "searchArticles"
    /\ Len(incoming) = DummyCount
    /\ Len(project.articles) = 1 + DummyCount
    /\ project.articles[1] = OldNoDoi
    /\ NoOverlap(<<OldNoDoi>>, incoming)

(***************************************************************************)
(* Article.to_dict and Article.from_dict on the articles of a bounded set  *)
(***************************************************************************)
\* The controller variables while no controller runs
ControllerIdle ==
    /\ project = Project("", "", 0)
    /\ disk = [f \in {ProjectFile} |-> <<>>]
    /\ writable = TRUE
    /\ room = TRUE
    /\ now = 0
    /\ op = "init"
    /\ saved = "none"
    /\ couldWrite = TRUE
    /\ failures = 0
    /\ incoming = <<>>

\* Two values for every attribute of an Article
ArticlePool ==
    [title : {"", "A survey"}, authors : { <<>>, <<"Z", "Y">> },
     journal : {"", "J"}, year : {"", "2019"}, doi : {"", "10.9/other"},
     abstract : {"", "abs"}, conclusion : { <<>>, <<"o","k">> },
     full_text : { <<>>, <<"t","x","t">> }, url : {"", "u"},
     source_db : { <<>>, ArXiv }, selected : BOOLEAN, notes : {"", "keep"},
     local_file_path : {"", "s.pdf"}]

RoundTripInit ==
    /\ article \in ArticlePool
    /\ data = <<>>
    /\ restored = <<>>
    /\ before = <<>>
    /\ aop = "init"
    /\ ControllerIdle
    /\ ExportIdle

\* d = article.to_dict()
ToDict ==
    /\ data' = << to_dict(article) >>
    /\ aop' = "to_dict"
    /\ UNCHANGED <<article, restored, before, ctlVars, writable, room, expVars>>

\* Article.from_dict(d)
FromDict ==
    /\ data # <<>>
    /\ restored' = << from_dict(data[1]) >>
    /\ aop' = "from_dict"
    /\ UNCHANGED <<article, data, before, ctlVars, writable, room, expVars>>

RoundTripNext == ToDict \/ FromDict

SpecRoundTrip == RoundTripInit /\ [][RoundTripNext]_vars

\* C1: the article Article.from_dict makes of a.to_dict() has the attributes
\* of a, each with the value it has in a.
C1_FromDictOfToDictIsTheArticle ==
    restored # <<>> =>
        /\ DOMAIN restored[1] = ArticleFields
        /\ \A f \in ArticleFields : restored[1][f] = article[f]

\* An article that is selected, annotated and stored locally went through
\* to_dict and from_dict
C1_Witness ==
    /\ restored # <<>>
    /\ aop = "from_dict"
    /\ article.selected
    /\ article.notes # ""
    /\ article.local_file_path # ""
    /\ article.authors # <<>>
    /\ article.doi # ""

(***************************************************************************)
(* Article.extract_conclusion on the texts of a bounded set                *)
(***************************************************************************)
\* The texts have at most MaxTextLines lines
MaxTextLines == 4

HeaderLine == <<"C","o","n","c","l","u","s","i","o","n">>

BodyLineOne == <<"w","e"," ","s","a","w"," ","x",".">>

BodyLineTwo == <<"a","n","d"," ","y","."," ">>

SectionLine == <<"R","e","f","s">>

SummaryLine == <<"S","u","m","m","a","r","y">>

TextLines == {HeaderLine, BodyLineOne, BodyLineTwo, SectionLine, SummaryLine, <<>>}

\* The text retrieve_full_text puts before the first copy of the title
FullTextHead ==
    << "I","N","T","R","O","D","U","C","T","I","O","N","\n","\n","T","h","i",
       "s"," ","p","a","p","e","r"," ","e","x","p","l","o","r","e","s"," " >>

\* The text between the two copies of the title
FullTextMiddle ==
    << "."," ","O","u","r"," ","r","e","s","e","a","r","c","h"," ","w","a",
       "s"," ","m","o","t","i","v","a","t","e","d"," ","b","y"," ","t","h",
       "e"," ","n","e","e","d"," ","t","o"," ","u","n","d","e","r","s","t",
       "a","n","d"," ","t","h","i","s"," ","t","o","p","i","c"," ","b","e",
       "t","t","e","r",".","\n","\n","M","E","T","H","O","D","O","L","O","G",
       "Y","\n","\n","W","e"," ","c","o","n","d","u","c","t","e","d"," ","a",
       " ","s","t","u","d","y"," ","u","s","i","n","g"," ","q","u","a","l",
       "i","t","a","t","i","v","e"," ","a","n","d"," ","q","u","a","n","t",
       "i","t","a","t","i","v","e"," ","m","e","t","h","o","d","s",".","\n",
       "\n","R","E","S","U","L","T","S","\n","\n","O","u","r"," ","f","i","n",
       "d","i","n","g","s"," ","i","n","d","i","c","a","t","e"," ","s","i",
       "g","n","i","f","i","c","a","n","t"," ","c","o","r","r","e","l","a",
       "t","i","o","n","s"," ","b","e","t","w","e","e","n"," ","v","a","r",
       "i","a","b","l","e","s",".","\n","\n","D","I","S","C","U","S","S","I",
       "O","N","\n","\n","T","h","e","s","e"," ","r","e","s","u","l","t","s",
       " ","s","u","g","g","e","s","t"," ","i","m","p","o","r","t","a","n",
       "t"," ","i","m","p","l","i","c","a","t","i","o","n","s"," ","f","o",
       "r"," ","t","h","e"," ","f","i","e","l","d",".","\n","\n","C","O","N",
       "C","L","U","S","I","O","N","\n","\n","I","n"," ","c","o","n","c","l",
       "u","s","i","o","n",","," ","w","e"," ","h","a","v","e"," ","d","e",
       "m","o","n","s","t","r","a","t","e","d"," ","t","h","a","t"," ","o",
       "u","r"," ","a","p","p","r","o","a","c","h"," ","p","r","o","v","i",
       "d","e","s"," ","v","a","l","u","a","b","l","e"," ","i","n","s","i",
       "g","h","t","s"," ","i","n","t","o"," " >>

\* The text after the second copy of the title
FullTextTail ==
    << "."," ","F","u","t","u","r","e"," ","r","e","s","e","a","r","c","h",
       " ","s","h","o","u","l","d"," ","f","o","c","u","s"," ","o","n"," ",
       "e","x","p","a","n","d","i","n","g"," ","t","h","e","s","e"," ","f",
       "i","n","d","i","n","g","s","." >>

\* A title as search_articles gives it to the results it makes up
ResearchTitle ==
    << "R","e","s","e","a","r","c","h"," ","o","n"," ","A","i"," ","i","n",
       " ","M","o","d","e","r","n"," ","C","o","n","t","e","x","t"," ","(",
       "1",")" >>

\* The titles of the articles whose full text is retrieved, character by
\* character
RetrievedTitles == { <<>>, ResearchTitle }

\* The characters of the title of an article (a title of RetrievedTitles)
TitleChars(title) == CHOOSE t \in RetrievedTitles : Str(t) = title

\* ArticleRetriever.retrieve_full_text(article): full_text becomes the
\* made-up paper with article.title.lower() in two places, then
\* article.extract_conclusion() runs; nothing in it raises
retrieve_full_text(a) ==
    LET title == Lower(TitleChars(a.title))
    IN  extract_conclusion(
            [a EXCEPT !.full_text =
                 FullTextHead \o title \o FullTextMiddle \o title \o FullTextTail])

ConclusionInit ==
    /\ \E ls \in SeqUpTo(TextLines, MaxTextLines), c \in { <<>>, <<"o","l","d">> },
          t \in RetrievedTitles :
          article = [ArticleDefault EXCEPT !.title = Str(t),
                                           !.full_text = JoinLines(ls),
                                           !.conclusion = c]
    /\ data = <<>>
    /\ restored = <<>>
    /\ before = <<>>
    /\ aop = "init"
    /\ ControllerIdle
    /\ ExportIdle

\* article.extract_conclusion()
ExtractConclusion ==
    /\ before' = << article >>
    /\ article' = extract_conclusion(article)
    /\ aop' = "extract_conclusion"
    /\ UNCHANGED <<data, restored, ctlVars, writable, room, expVars>>

\* retriever.retrieve_full_text(article), which returns True
RetrieveFullText ==
    /\ before' = << article >>
    /\ article' = retrieve_full_text(article)
    /\ aop' = "retrieve_full_text"
    /\ UNCHANGED <<data, restored, ctlVars, writable, room, expVars>>

ConclusionNext == ExtractConclusion \/ RetrieveFullText

SpecConclusion == ConclusionInit /\ [][ConclusionNext]_vars

\* A line that starts a new section: after optional blanks, an upper-case
\* letter followed by a lower-case one
IsCapitalized(line) ==
    LET l == LStrip(line)
    IN  Len(l) >= 2 /\ IsUpper(l[1]) /\ IsLower(l[2])

\* The text is a "Conclusion" header line, then body lines none of which is
\* blank or capitalized, then a capitalized line: the number of that line
SectionStart(text) ==
    LET ls == SplitLines(text)
        ks == {k \in 3..Len(ls) :
                 /\ ls[1] = HeaderLine
                 /\ IsCapitalized(ls[k])
                 /\ \A m \in 2..(k - 1) : Strip(ls[m]) # <<>> /\ ~IsCapitalized(ls[m])}
    IN  IF ks = {} THEN 0 ELSE CHOOSE k \in ks : TRUE

\* The body between the header and the new section
WholeBody(text) == JoinLines(SubSeq(SplitLines(text), 2, SectionStart(text) - 1))

\* The text holds none of the headers, in any case
HasNoHeader(text) ==
    \A n \in DOMAIN ConclusionPatterns :
        \A i \in 1..Len(text) : ~MatchLiteralAt(Lower(text), i, ConclusionPatterns[n].lit, FALSE)

\* C9: on a text made of a "Conclusion" header, a body and a new capitalized
\* section, extract_conclusion sets conclusion to the whole body, stripped; on
\* an empty text and on a text without any of the headers it leaves
\* conclusion as it was.
C9_ExtractsWholeBody ==
    aop = "extract_conclusion" =>
        LET text == before[1].full_text
        IN  /\ SectionStart(text) # 0 => article.conclusion = Strip(WholeBody(text))
            /\ (text = <<>> \/ HasNoHeader(text)) =>
                  article.conclusion = before[1].conclusion

\* C9, the second half alone: a text that is empty or holds no header leaves
\* conclusion as it was
C9_NoHeaderLeavesConclusion ==
    aop = "extract_conclusion" =>
        LET text == before[1].full_text
        IN  (text = <<>> \/ HasNoHeader(text)) =>
                article.conclusion = before[1].conclusion

\* C9, the first half for a body of one line
C9_ExtractsOneLineBody ==
    aop = "extract_conclusion" =>
        LET text == before[1].full_text
        IN  SectionStart(text) = 3 => article.conclusion = Strip(WholeBody(text))

(***************************************************************************)
(* DocumentExporter                                                        *)
(***************************************************************************)
\* str.find(sub): the 0-based index of the first occurrence of sub in s,
\* -1 when there is none
Find(s, sub) ==
    LET hits == {i \in 1..(Len(s) - Len(sub) + 1) : SubSeq(s, i, i + Len(sub) - 1) = sub}
    IN  IF hits = {} THEN -1
        ELSE (CHOOSE i \in hits : \A j \in hits : i <= j) - 1

\* s[a:b] for 0 <= a and 0 <= b
PySlice(s, a, b) == Slice(s, a + 1, (IF b > Len(s) THEN Len(s) ELSE b) + 1)

\* s[a:] for 0 <= a
PySliceFrom(s, a) == PySlice(s, a, Len(s))

\* A paragraph node of the python-docx document: its style, the text of its
\* run and whether that run is italic
Paragraph(style, text, italic) == [style |-> style, text |-> text, italic |-> italic]

\* doc.add_paragraph()
EmptyParagraph == Paragraph("Normal", <<>>, FALSE)

\* doc.add_heading(text, level) for a level of 1 to 9
add_heading(text, level) == Paragraph("Heading " \o ToString(level), text, FALSE)

FigureMarker == <<"[","F","I","G","U","R","E",":">>

\* The branch of the loop for a line that holds "[FIGURE:"
FigureParagraphs(line) ==
    LET figure_text == PySlice(line, Find(line, FigureMarker), Find(line, <<"]">>) + 1)
    IN  << Paragraph("Normal", figure_text, TRUE), EmptyParagraph >>

\* The branch of the loop for a numbered item
NumberedParagraphs(line) ==
    LET s == Strip(line)
        k == Find(s, <<".", " ">>)
    IN  IF k = -1 THEN <<>>
        ELSE << Paragraph("List Number", PySliceFrom(s, k + 2), FALSE) >>

\* The branch of the loop for a blank line
BlankParagraphs(in_list) == IF in_list THEN <<>> ELSE << EmptyParagraph >>

\* One pass of the loop of export_docx over a line: the paragraphs it adds
\* and the in_list flag it leaves
DocxLine(line, in_list) ==
    IF StartsWith(line, <<"#", " ">>)
    THEN [nodes |-> << add_heading(PySliceFrom(line, 2), 1) >>, in_list |-> in_list]
    ELSE IF StartsWith(line, <<"#", "#", " ">>)
    THEN [nodes |-> << add_heading(PySliceFrom(line, 3), 2) >>, in_list |-> in_list]
    ELSE IF StartsWith(line, <<"#", "#", "#", " ">>)
    THEN [nodes |-> << add_heading(PySliceFrom(line, 4), 3) >>, in_list |-> in_list]
    ELSE IF StartsWith(Strip(line), <<"-", " ">>)
    THEN [nodes |-> << Paragraph("List Bullet", PySliceFrom(line, 2), FALSE) >>,
          in_list |-> TRUE]
    ELSE IF StartsWith(Strip(line), <<"1", ".", " ">>)
            \/ StartsWith(Strip(line), <<"2", ".", " ">>)
    THEN [nodes |-> NumberedParagraphs(line), in_list |-> TRUE]
    ELSE IF Find(line, FigureMarker) # -1
    THEN [nodes |-> FigureParagraphs(line), in_list |-> in_list]
    ELSE IF Strip(line) # <<>>
    THEN [nodes |-> << Paragraph("Normal", line, FALSE) >>, in_list |-> FALSE]
    ELSE [nodes |-> BlankParagraphs(in_list), in_list |-> in_list]

\* The loop of export_docx over the lines
RECURSIVE DocxLines(_, _)
DocxLines(lines, in_list) ==
    IF lines = <<>> THEN <<>>
    ELSE LET r == DocxLine(Head(lines), in_list)
         IN  r.nodes \o DocxLines(Tail(lines), r.in_list)

\* The body of the document export_docx builds from the content
DocxBody(text) == DocxLines(SplitLines(text), FALSE)

\* The Unicode code point of a character
CodePoint(c) ==
    IF IsUpper(c) THEN 64 + IndexIn(UpperLetters, c)
    ELSE IF IsLower(c) THEN 96 + IndexIn(LowerLetters, c)
    ELSE IF IsDigit(c) THEN 47 + IndexIn(Digits, c)
    ELSE CASE c = "\n" -> 10
           [] c = "\r" -> 13
           [] c = " " -> 32
           [] c = "#" -> 35
           [] c = "-" -> 45
           [] c = "." -> 46
           [] c = ":" -> 58
           [] c = "[" -> 91
           [] c = "]" -> 93
           [] c = "é" -> 233
           [] c = "€" -> 8364

\* c.encode('utf-8'): the bytes of one character
EncodeChar(c) ==
    LET cp == CodePoint(c)
    IN  IF cp < 128 THEN << cp >>
        ELSE IF cp < 2048 THEN << 192 + (cp \div 64), 128 + (cp % 64) >>
        ELSE << 224 + (cp \div 4096), 128 + ((cp \div 64) % 64), 128 + (cp % 64) >>

\* s.encode('utf-8')
RECURSIVE Utf8Encode(_)
Utf8Encode(s) == IF s = <<>> THEN <<>> ELSE EncodeChar(Head(s)) \o Utf8Encode(Tail(s))

\* os.linesep of the platform (POSIX)
LineSep == << "\n" >>

\* What a file opened in text mode with the default newline=None does to the
\* text written: every "\n" becomes os.linesep
RECURSIVE TranslateNewlines(_)
TranslateNewlines(s) ==
    IF s = <<>> THEN <<>>
    ELSE (IF Head(s) = "\n" THEN LineSep ELSE << Head(s) >>) \o TranslateNewlines(Tail(s))

\* The file a saved python-docx document makes
DocxFile(nodes) == [fmt |-> "docx", nodes |-> nodes]

\* A file of bytes
BytesFile(bytes) == [fmt |-> "bytes", bytes |-> bytes]

\* What a file holds when a write failed after open(path, 'w') had emptied
\* it: the part of the output that was written before the failure
TruncatedFile == [fmt |-> "truncated"]

\* export_docx with doc.save outside the try block
export_docx_unguarded ==
    /\ xop' = "export_docx"
    /\ IF writable /\ room
       THEN /\ outFile' = << DocxFile(DocxBody(content)) >>
            /\ xresult' = TRUE
            /\ xraised' = FALSE
       ELSE /\ outFile' = IF writable THEN << TruncatedFile >> ELSE outFile
            /\ xresult' = xresult
            /\ xraised' = TRUE
    /\ xprior' = outFile
    /\ UNCHANGED <<content, writable, room, artVars, ctlVars>>

\* DocumentExporter.export_docx(content, output_path): every exception of the
\* body is caught and turned into the result False.  doc.save opens the file
\* for writing and then writes the package, which is never empty.
export_docx ==
    /\ xop' = "export_docx"
    /\ IF ~writable
       THEN /\ outFile' = outFile
            /\ xresult' = FALSE
       ELSE IF room
       THEN /\ outFile' = << DocxFile(DocxBody(content)) >>
            /\ xresult' = TRUE
       ELSE /\ outFile' = << TruncatedFile >>
            /\ xresult' = FALSE
    /\ xprior' = outFile
    /\ xraised' = FALSE
    /\ UNCHANGED <<content, writable, room, artVars, ctlVars>>

\* export_text with the file opened in mode 'a'
export_text_appends ==
    /\ xop' = "export_text"
    /\ LET bytes == Utf8Encode(TranslateNewlines(content))
           held == IF outFile # <<>> /\ outFile[1].fmt = "bytes"
                   THEN outFile[1].bytes ELSE <<>>
       IN  IF ~writable
           THEN /\ outFile' = outFile
                /\ xresult' = FALSE
           ELSE IF room \/ bytes = <<>>
           THEN /\ outFile' = << BytesFile(held \o bytes) >>
                /\ xresult' = TRUE
           ELSE /\ outFile' = << TruncatedFile >>
                /\ xresult' = FALSE
    /\ xprior' = outFile
    /\ xraised' = FALSE
    /\ UNCHANGED <<content, writable, room, artVars, ctlVars>>

\* DocumentExporter.export_text(content, output_path): open(output_path, 'w')
\* empties or creates the file, f.write(content) fills it, and every
\* exception is caught and turned into the result False.  An empty content
\* needs no room.
export_text ==
    /\ xop' = "export_text"
    /\ LET bytes == Utf8Encode(TranslateNewlines(content))
       IN  IF ~writable
           THEN /\ outFile' = outFile
                /\ xresult' = FALSE
           ELSE IF room \/ bytes = <<>>
           THEN /\ outFile' = << BytesFile(bytes) >>
                /\ xresult' = TRUE
           ELSE /\ outFile' = << TruncatedFile >>
                /\ xresult' = FALSE
    /\ xprior' = outFile
    /\ xraised' = FALSE
    /\ UNCHANGED <<content, writable, room, artVars, ctlVars>>

\* DocumentExporter.export_markdown(content, output_path): the same steps as
\* export_text
export_markdown ==
    /\ xop' = "export_markdown"
    /\ LET bytes == Utf8Encode(TranslateNewlines(content))
       IN  IF ~writable
           THEN /\ outFile' = outFile
                /\ xresult' = FALSE
           ELSE IF room \/ bytes = <<>>
           THEN /\ outFile' = << BytesFile(bytes) >>
                /\ xresult' = TRUE
           ELSE /\ outFile' = << TruncatedFile >>
                /\ xresult' = FALSE
    /\ xprior' = outFile
    /\ xraised' = FALSE
    /\ UNCHANGED <<content, writable, room, artVars, ctlVars>>

(***************************************************************************)
(* The exports of the review contents of a bounded set                     *)
(***************************************************************************)
\* The contents have at most MaxExportLines lines of ExportLines
MaxExportLines == 3

HeadingLine == <<"#"," ","T">>

SubHeadingLine == <<"#","#"," ","U">>

ParagraphLine == <<"p","é">>

BulletLine == <<"-"," ","a">>

IndentedBulletLine == <<" "," ","-"," ","b">>

NumberedLine == <<"1","."," ","n">>

FigureLine == <<"[","F","I","G","U","R","E",":"," ","f","]">>

ExportLines == {HeadingLine, SubHeadingLine, ParagraphLine, BulletLine,
                IndentedBulletLine, NumberedLine, FigureLine, <<>>}

\* "# Title\n\nSome para\n- item one\n- item two\n"
FiveLineExample ==
    <<"#"," ","T","i","t","l","e","\n","\n","S","o","m","e"," ","p","a","r","a","\n",
      "-"," ","i","t","e","m"," ","o","n","e","\n","-"," ","i","t","e","m"," ","t","w","o","\n">>

\* "- a\n\n\npé": two blank lines after a list
ListThenBlanks == JoinLines(<< BulletLine, <<>>, <<>>, ParagraphLine >>)

\* "- a\n# T\n\npé": a heading, then a blank line, after a list
ListHeadingBlank == JoinLines(<< BulletLine, HeadingLine, <<>>, ParagraphLine >>)

\* "1. n\n[FIGURE: f]\n\npé": a figure, then a blank line, after a list
ListFigureBlank == JoinLines(<< NumberedLine, FigureLine, <<>>, ParagraphLine >>)

\* The third item of a numbered list
ThirdItemLine == <<"3","."," ","n">>

\* A figure marker that is never closed
UnclosedFigureLine == <<"[","F","I","G","U","R","E",":"," ","g">>

\* A figure marker with the only "]" before it
BracketBeforeFigureLine == <<"]"," ","[","F","I","G","U","R","E",":"," ","h">>

\* The contents: the lines joined by newlines, with or without a newline at
\* the end, the five-line example and the documents and lines above
ExportContents ==
    { JoinLines(ls) : ls \in SeqUpTo(ExportLines, MaxExportLines) }
      \cup { FiveLineExample, ListThenBlanks, ListHeadingBlank, ListFigureBlank,
              ThirdItemLine, UnclosedFigureLine, BracketBeforeFigureLine }

ExportInit ==
    /\ content \in ExportContents
    /\ outFile = <<>>
    /\ xop = "none"
    /\ xresult = FALSE
    /\ xprior = <<>>
    /\ xraised = FALSE
    /\ ControllerIdle
    /\ ArticleIdle

ExportNext == export_docx \/ export_text \/ export_markdown \/ SetWritable \/ SetRoom

SpecExport == ExportInit /\ [][ExportNext]_vars

\* The class of a line, by the first rule of the list that matches
LineClass(line) ==
    IF StartsWith(line, <<"#"," ">>) \/ StartsWith(line, <<"#","#"," ">>)
       \/ StartsWith(line, <<"#","#","#"," ">>) THEN "heading"
    ELSE IF StartsWith(Strip(line), <<"-"," ">>) THEN "bullet"
    ELSE IF Len(Strip(line)) >= 3 /\ IsDigit(Strip(line)[1])
            /\ SubSeq(Strip(line), 2, 3) = <<"."," ">> THEN "numbered"
    ELSE IF Find(line, FigureMarker) # -1 THEN "figure"
    ELSE IF Strip(line) # <<>> THEN "paragraph"
    ELSE "blank"

\* The lines of a text that a newline ends: what precedes each newline
LinesOf(text) ==
    LET ls == SplitLines(text)
    IN  IF text # <<>> /\ text[Len(text)] = "\n" THEN SubSeq(ls, 1, Len(ls) - 1) ELSE ls

\* The level of a heading line: the number of "#" before the blank
HeadingLevel(line) == Find(line, <<" ">>)

\* The block of a line: its class and its text without the marker
BlockOf(line) ==
    CASE LineClass(line) = "heading" ->
           Paragraph("Heading " \o ToString(HeadingLevel(line)),
                     PySliceFrom(line, HeadingLevel(line) + 1), FALSE)
      [] LineClass(line) = "bullet" ->
           Paragraph("List Bullet", PySliceFrom(Strip(line), 2), FALSE)
      [] LineClass(line) = "paragraph" -> Paragraph("Normal", line, FALSE)
      [] LineClass(line) = "blank" -> EmptyParagraph

\* The text is made of heading, blank, paragraph and bullet lines and a
\* newline ends it
PlainLinesEnded(text) ==
    /\ text # <<>>
    /\ text[Len(text)] = "\n"
    /\ \A i \in DOMAIN LinesOf(text) :
          LineClass(LinesOf(text)[i]) \in {"heading", "blank", "paragraph", "bullet"}

\* C7: for every content made of heading, blank, paragraph and bullet lines
\* and ended by a newline, the document export_docx saves holds exactly one
\* block per line, in the order of the lines, each with the class of its line
\* and the text of the line without its marker; nothing is added for the
\* newline at the end.
C7_OneBlockPerLine ==
    (xop = "export_docx" /\ xresult /\ PlainLinesEnded(content)) =>
        LET ls == LinesOf(content)
        IN  outFile[1].nodes = [i \in 1..Len(ls) |-> BlockOf(ls[i])]

\* C7, the five-line example alone: a heading, an empty paragraph, a
\* paragraph and two bullet items
C7_FiveLineExample ==
    (xop = "export_docx" /\ xresult /\ content = FiveLineExample) =>
        outFile[1].nodes =
            << Paragraph("Heading 1", <<"T","i","t","l","e">>, FALSE),
               EmptyParagraph,
               Paragraph("Normal", <<"S","o","m","e"," ","p","a","r","a">>, FALSE),
               Paragraph("List Bullet", <<"i","t","e","m"," ","o","n","e">>, FALSE),
               Paragraph("List Bullet", <<"i","t","e","m"," ","t","w","o">>, FALSE) >>

\* C8: in the document export_docx saves, a figure line adds exactly three
\* paragraphs in this order: an empty one, one that holds the placeholder in
\* italics, an empty one.
C8_FigureAddsThreeParagraphs ==
    (xop = "export_docx" /\ xresult /\ content = FigureLine) =>
        outFile[1].nodes =
            << EmptyParagraph, Paragraph("Normal", FigureLine, TRUE), EmptyParagraph >>

TextExports == {"export_text", "export_markdown"}

FormatOf(x) == IF x = "export_docx" THEN "docx" ELSE "bytes"

\* The target of the export x cannot be written: it cannot be opened for
\* writing, or there is no room for what the export writes
Unwritable(x) ==
    \/ ~writable
    \/ ~room /\ (x = "export_docx" \/ content # <<>>)

\* C11: export_docx, export_text and export_markdown never let an exception
\* reach the caller; they return False when the target cannot be written and
\* return True only when the file has been written.
C11_ExportsReturnFlag ==
    [][(writable' = writable /\ room' = room) =>
          /\ ~xraised'
          /\ xresult' <=> ~Unwritable(xop')
          /\ xresult' => (outFile' # <<>> /\ outFile'[1].fmt = FormatOf(xop'))
      ]_vars

\* export_markdown ran out of room on a path that held no file: it returned
\* False, let no exception out, and left a file cut short
C11_Witness ==
    /\ xop = "export_markdown"
    /\ ~xresult
    /\ ~xraised
    /\ writable
    /\ ~room
    /\ xprior = <<>>
    /\ outFile = << TruncatedFile >>
    /\ content # <<>>

\* The incoming record i has a non-empty doi that no held record and no
\* earlier record of the batch has
FreshDoi(held, results, i) ==
    /\ results[i].doi # ""
    /\ \A j \in DOMAIN held : held[j].doi # results[i].doi
    /\ \A k \in 1..(i - 1) : results[k].doi # results[i].doi

StartsNumbered(line) ==
    StartsWith(Strip(line), <<"1",".", " ">>) \/ StartsWith(Strip(line), <<"2",".", " ">>)

\* A bullet or numbered list item
IsListItem(line) == LineClass(line) \in {"bullet", "numbered"}

\* The paragraphs of the document when a blank line adds nothing exactly when
\* the line right before it is a list item, from line i on
RECURSIVE BlankAfterItemNodes(_, _)
BlankAfterItemNodes(ls, i) ==
    IF i > Len(ls) THEN <<>>
    ELSE (IF LineClass(ls[i]) = "blank"
          THEN (IF i > 1 /\ IsListItem(ls[i - 1]) THEN <<>> ELSE << EmptyParagraph >>)
          ELSE DocxLine(ls[i], FALSE).nodes)
         \o BlankAfterItemNodes(ls, i + 1)

\* C13: in the document export_docx saves, a blank line adds no paragraph
\* only when the line right before it is a bullet or numbered item; a second
\* blank line after a list, and a blank line after a heading or a figure that
\* follows a list, each add an empty paragraph.  (Contents without a newline
\* at the end, whose numbered lines start with "1. " or "2. ".)
C13_BlankSuppressedOnlyAfterItem ==
    (/\ xop = "export_docx"
     /\ xresult
     /\ content # <<>>
     /\ content[Len(content)] # "\n"
     /\ \A i \in DOMAIN SplitLines(content) :
           LineClass(SplitLines(content)[i]) = "numbered"
              => StartsNumbered(SplitLines(content)[i]))
    => outFile[1].nodes = BlankAfterItemNodes(SplitLines(content), 1)

\* The content is one line
OneLine(text) == \A i \in DOMAIN text : text[i] # "\n"

\* C14: a line that is not a heading and whose trimmed form starts with a
\* digit, any of 0 to 9, followed by ". " becomes a numbered-list paragraph
\* whose text is what follows the first ". ".  (Contents of one line.)
C14_AnyDigitIsNumbered ==
    (xop = "export_docx" /\ xresult /\ OneLine(content)
        /\ LineClass(content) = "numbered")
    => outFile[1].nodes =
          << Paragraph("List Number",
                       PySliceFrom(Strip(content), Find(Strip(content), <<".", " ">>) + 2),
                       FALSE) >>

\* The positions of the "]" after the first "[FIGURE:" of the line
ClosingBrackets(line) ==
    {j \in (Find(line, FigureMarker) + Len(FigureMarker) + 1)..Len(line) : line[j] = "]"}

\* C15: a line that is neither a heading nor a list item and holds "[FIGURE:"
\* is a figure placeholder only when a "]" follows the marker, and then the
\* document holds an italic paragraph with the text from the marker through
\* that "]"; without a "]" after the marker the line becomes an ordinary
\* paragraph with its whole text.  (Contents of one line.)
C15_FigureNeedsClosingBracket ==
    (xop = "export_docx" /\ xresult /\ OneLine(content)
        /\ LineClass(content) = "figure")
    => IF ClosingBrackets(content) # {}
       THEN LET first == CHOOSE j \in ClosingBrackets(content) :
                             \A k \in ClosingBrackets(content) : j <= k
            IN  \E n \in DOMAIN outFile[1].nodes :
                    /\ outFile[1].nodes[n].italic
                    /\ outFile[1].nodes[n].text =
                          SubSeq(content, Find(content, FigureMarker) + 1, first)
       ELSE outFile[1].nodes = << Paragraph("Normal", content, FALSE) >>

(***************************************************************************)
(* The controller choosing databases                                       *)
(***************************************************************************)
\* The language model suggests at most MaxSuggestions databases
MaxSuggestions == 2

\* The items the language model may return: configured databases and one
\* that is not configured
SuggestionPool ==
    { [database |-> d, reason |-> "r"] : d \in {ArXiv, PubMed, Scopus} }

\* What suggest_publication_databases gets from the language model: <<>> when
\* the call raises, else <<the list of the answer>>
SuggestionAnswers ==
    { <<>> } \cup { << xs >> : xs \in SeqUpTo(SuggestionPool, MaxSuggestions) }

DatabasesInit ==
    /\ ControllerInit({ <<>>, FileOf(SmallProject) }, MaxClock)
    /\ writable = TRUE
    /\ room = TRUE

DatabasesNext ==
    \/ createNewProject("New review", ProjectFile)
    \/ loadProject(ProjectFile)
    \/ loadProjectFails(ProjectFile)
    \/ \E answer \in SuggestionAnswers : suggestDatabases(answer)
    \/ \E database \in ConfiguredDatabases, selected \in BOOLEAN :
          setDatabaseSelected(database, selected)

SpecDatabases == DatabasesInit /\ [][DatabasesNext]_vars

\* The number of times x occurs in xs
Count(xs, x) == Cardinality({i \in DOMAIN xs : xs[i] = x})

\* C16: whatever suggestDatabases and setDatabaseSelected calls were made,
\* selected_databases holds no database name twice, and the name that
\* setDatabaseSelected(d, false) removes is no longer in it afterwards.
C16_SelectedDatabasesIsASet ==
    [][/\ \A d \in Range(project'.selected_databases) :
             Count(project'.selected_databases, d) = 1
       /\ op' = "setDatabaseSelected" =>
             \A d \in Range(project.selected_databases) :
                 Count(project'.selected_databases, d)
                      < Count(project.selected_databases, d)
                    => d \notin Range(project'.selected_databases)
      ]_vars

\* C17: after a Project.save() that returned, the date_modified of the
\* project in memory is the date_modified written to the project file, so
\* that loading the file gives the date_modified of the saved project.
C17_SavedDateIsTheDateInMemory ==
    saved = "ok" =>
        /\ Persisted.date_modified = project.date_modified
        /\ \A o \in ProjectLoad(project.path, disk, now) :
              o.project # <<>> /\ o.project[1].date_modified = project.date_modified

====
